---- MODULE Spec2Model ----
(***************************************************************************)
(* Model of src/EdgeConProblem/EdgeConReduction.c: the reduction of the    *)
(* EdgeCon problem to SAT (EdgeConReduction and its builders phi_2 ..      *)
(* phi_8) and the decoding of a model (getTranslatorSetFromModel).         *)
(*                                                                         *)
(* A formula is the Z3 expression tree the builders return:                *)
(*   [op |-> "var", name |-> <<...>>]   a boolean variable (mk_bool_var)   *)
(*   [op |-> "not", arg |-> f]          Z3_mk_not                          *)
(*   [op |-> "and", args |-> <<...>>]   Z3_mk_and over an array            *)
(*   [op |-> "or",  args |-> <<...>>]   Z3_mk_or over an array             *)
(*   [op |-> "false"]                   Z3_mk_false                        *)
(* A variable's name is the tuple of the values snprintf formats into it:  *)
(* two variables are the same Z3 variable iff their names are equal.       *)
(***************************************************************************)
EXTENDS Integers, Sequences, FiniteSets, TLC

\* Bounds of the explored inputs.
MaxNodes == 3
MaxK == 1

VARIABLES
    numNodes,    \* G.numNodes
    edges,       \* the edges of G, each as <<u, v>> with u < v
    component,   \* component[v]: the homogeneous component of node v
    cost,        \* the argument cost of EdgeConReduction
    pc,          \* position of the caller: start, reduced, unsat, sat, done
    formula,     \* the value returned by EdgeConReduction
    model,       \* the solver's model: the set of the variables it makes true
    calls        \* the calls made on the graph, in order

vars == <<numNodes, edges, component, cost, pc, formula, model, calls>>

----------------------------------------------------------------------------
\* Sequences standing for the C loops and arrays.

\* The values lo, lo + 1, ..., hi - 1 in increasing order: for (x = lo; x < hi; x++).
Range(lo, hi) == [x \in 1..(IF hi > lo THEN hi - lo ELSE 0) |-> lo + x - 1]

RECURSIVE Concat(_)
\* The concatenation of a sequence of sequences: the array a nested loop fills.
Concat(ss) == IF ss = <<>> THEN <<>> ELSE Head(ss) \o Concat(Tail(ss))

\* The array filled by  for (x in xs) body(x)  where body(x) appends a sequence.
ForEach(xs, body(_)) == Concat([p \in 1..Len(xs) |-> body(xs[p])])

----------------------------------------------------------------------------
\* The external graph (Graph.h, EdgeConGraph.h).

Nodes == 0..(numNodes - 1)

isEdge(u, v) == <<u, v>> \in edges \/ <<v, u>> \in edges

isNodeInComponent(v, j) == component[v] = j

getNumComponents == Cardinality({component[v] : v \in Nodes})

----------------------------------------------------------------------------
\* Z3 expression constructors (Z3Tools.h, z3.h).

mk_bool_var(name) == [op |-> "var", name |-> name]
NOT(f) == [op |-> "not", arg |-> f]
Z3_mk_and(args) == [op |-> "and", args |-> args]
Z3_mk_or(args) == [op |-> "or", args |-> args]
Z3_mk_false == [op |-> "false"]

\* The three variable families.
getVariableIsIthTranslator(node1, node2, number) ==
    IF node1 < node2
    THEN mk_bool_var(<<"x", node1, node2, number>>)
    ELSE mk_bool_var(<<"x", node2, node1, number>>)

getVariableParent(child, parent) == mk_bool_var(<<"p", child, parent>>)

getVariableLevelInSpanningTree(level, comp) == mk_bool_var(<<"l", comp, level>>)

X_(u, v, i) == getVariableIsIthTranslator(u, v, i)
P_(j1, j2) == getVariableParent(j1, j2)
L_(j, h) == getVariableLevelInSpanningTree(h, j)

----------------------------------------------------------------------------
\* The reduction context.

init_g_context(k) ==
    [n |-> numNodes,
     m |-> Cardinality(edges),
     C_H |-> getNumComponents,
     N |-> getNumComponents - 1,
     k |-> k]

----------------------------------------------------------------------------
\* The builders.  Each array is the sequence of the values the loops store
\* into it, in the order they are stored (phi[pos++] = ...).

\* The pairs <<e1, e2>>, e1 < e2 < n, with isEdge(e1, e2), in loop order.
EdgePairs(ctx) ==
    ForEach(Range(0, ctx.n), LAMBDA e1 :
        ForEach(Range(e1 + 1, ctx.n), LAMBDA e2 :
            IF isEdge(e1, e2) THEN << <<e1, e2>> >> ELSE <<>>))

\* build_phi_2_1 with && for || in the test that the two edges differ.
build_phi_2_1_both_ends_differ(ctx) ==
    Z3_mk_and(
        ForEach(Range(0, ctx.N), LAMBDA i :
            ForEach(EdgePairs(ctx), LAMBDA e :
                ForEach(Range(0, ctx.n), LAMBDA f1 :
                    ForEach(Range(f1 + 1, ctx.n), LAMBDA f2 :
                        IF (e[1] # f1 /\ e[2] # f2) /\ isEdge(f1, f2)
                        THEN << Z3_mk_or(<< NOT(X_(e[1], e[2], i)),
                                            NOT(X_(f1, f2, i)) >>) >>
                        ELSE <<>>)))))

build_phi_2_1(ctx) ==
    Z3_mk_and(
        ForEach(Range(0, ctx.N), LAMBDA i :
            ForEach(EdgePairs(ctx), LAMBDA e :
                ForEach(Range(0, ctx.n), LAMBDA f1 :
                    ForEach(Range(f1 + 1, ctx.n), LAMBDA f2 :
                        IF (e[1] # f1 \/ e[2] # f2) /\ isEdge(f1, f2)
                        THEN << Z3_mk_or(<< NOT(X_(e[1], e[2], i)),
                                            NOT(X_(f1, f2, i)) >>) >>
                        ELSE <<>>)))))

build_phi_2_2(ctx) ==
    Z3_mk_and(
        ForEach(EdgePairs(ctx), LAMBDA e :
            ForEach(Range(0, ctx.N), LAMBDA i :
                ForEach(Range(i + 1, ctx.N), LAMBDA j :
                    << Z3_mk_or(<< NOT(X_(e[1], e[2], i)),
                                   NOT(X_(e[1], e[2], j)) >>) >>))))

build_phi_2(ctx) == Z3_mk_and(<< build_phi_2_1(ctx), build_phi_2_2(ctx) >>)

\* build_phi_3_1 with the loop over j starting at the root, j = 0.
build_phi_3_1_from_root(ctx) ==
    Z3_mk_and(
        ForEach(Range(0, ctx.C_H), LAMBDA j :
            << Z3_mk_or(
                ForEach(Range(0, ctx.C_H), LAMBDA j1 :
                    IF j # j1 THEN << P_(j, j1) >> ELSE <<>>)) >>))

\* build_phi_3_1 with the loop over j stopping one component early.
build_phi_3_1_stops_early(ctx) ==
    Z3_mk_and(
        ForEach(Range(1, ctx.C_H - 1), LAMBDA j :
            << Z3_mk_or(
                ForEach(Range(0, ctx.C_H), LAMBDA j1 :
                    IF j # j1 THEN << P_(j, j1) >> ELSE <<>>)) >>))

build_phi_3_1(ctx) ==
    Z3_mk_and(
        ForEach(Range(1, ctx.C_H), LAMBDA j :
            << Z3_mk_or(
                ForEach(Range(0, ctx.C_H), LAMBDA j1 :
                    IF j # j1 THEN << P_(j, j1) >> ELSE <<>>)) >>))

build_phi_3_2(ctx) ==
    Z3_mk_and(
        ForEach(Range(1, ctx.C_H), LAMBDA j :
            ForEach(Range(0, ctx.C_H - 1), LAMBDA j1 :
                IF j1 # j
                THEN ForEach(Range(j1 + 1, ctx.C_H), LAMBDA j2 :
                        IF j2 # j
                        THEN << Z3_mk_or(<< NOT(P_(j, j1)), NOT(P_(j, j2)) >>) >>
                        ELSE <<>>)
                ELSE <<>>)))

build_phi_3(ctx) == Z3_mk_and(<< build_phi_3_1(ctx), build_phi_3_2(ctx) >>)

build_phi_4_1(ctx) ==
    Z3_mk_and(
        ForEach(Range(0, ctx.C_H), LAMBDA i :
            << Z3_mk_or(ForEach(Range(0, ctx.N), LAMBDA n : << L_(i, n) >>)) >>))

build_phi_4_2(ctx) ==
    Z3_mk_and(
        ForEach(Range(0, ctx.C_H), LAMBDA i :
            ForEach(Range(0, ctx.N), LAMBDA n :
                ForEach(Range(n + 1, ctx.N), LAMBDA n_prime :
                    << Z3_mk_or(<< NOT(L_(i, n)), NOT(L_(i, n_prime)) >>) >>))))

build_phi_4(ctx) == Z3_mk_and(<< build_phi_4_1(ctx), build_phi_4_2(ctx) >>)

\* The loop variable i runs over the components and n over the levels, and
\* the call is L_(n, i): the macro's first argument is the component.
build_phi_5(ctx) ==
    Z3_mk_or(
        ForEach(Range(0, ctx.C_H), LAMBDA i :
            ForEach(Range(ctx.k, ctx.N), LAMBDA n : << L_(n, i) >>)))

\* phi_6_disjuncts without the test that u is in component j2.
phi_6_disjuncts_any_source(ctx, j1, j2) ==
    ForEach(Range(0, ctx.n), LAMBDA u :
        ForEach(Range(u + 1, ctx.n), LAMBDA v :
            IF isEdge(u, v) /\ isNodeInComponent(v, j1)
            THEN ForEach(Range(0, ctx.N), LAMBDA i : << X_(u, v, i) >>)
            ELSE <<>>))

\* The array phi_6 before the test 0 == pos.
phi_6_disjuncts(ctx, j1, j2) ==
    ForEach(Range(0, ctx.n), LAMBDA u :
        ForEach(Range(u + 1, ctx.n), LAMBDA v :
            IF isEdge(u, v) /\ isNodeInComponent(v, j1) /\ isNodeInComponent(u, j2)
            THEN ForEach(Range(0, ctx.N), LAMBDA i : << X_(u, v, i) >>)
            ELSE <<>>))

build_phi_6(ctx, j1, j2) ==
    IF Len(phi_6_disjuncts(ctx, j1, j2)) = 0
    THEN Z3_mk_false
    ELSE Z3_mk_or(phi_6_disjuncts(ctx, j1, j2))

build_phi_7(ctx, j1, j2) ==
    Z3_mk_and(
        ForEach(Range(1, ctx.N), LAMBDA h :
            << Z3_mk_or(<< NOT(L_(j1, h)), L_(j2, h - 1) >>) >>))

build_phi_8(ctx) ==
    Z3_mk_and(
        ForEach(Range(0, ctx.C_H), LAMBDA j1 :
            ForEach(Range(0, ctx.C_H), LAMBDA j2 :
                IF j1 # j2
                THEN << Z3_mk_and(<<
                          Z3_mk_or(<< NOT(P_(j1, j2)), build_phi_6(ctx, j1, j2) >>),
                          Z3_mk_or(<< NOT(P_(j1, j2)), build_phi_7(ctx, j1, j2) >>)
                        >>) >>
                ELSE <<>>)))

EdgeConReduction(k) ==
    Z3_mk_and(<< build_phi_2(init_g_context(k)),
                 build_phi_3(init_g_context(k)),
                 build_phi_4(init_g_context(k)),
                 build_phi_5(init_g_context(k)),
                 build_phi_8(init_g_context(k)) >>)

----------------------------------------------------------------------------
\* Formulas: the variables they create and their value under an assignment
\* (the set of the variables that are true).

RECURSIVE CreatedVars(_)
CreatedVars(f) ==
    CASE f.op = "var" -> {f.name}
      [] f.op = "not" -> CreatedVars(f.arg)
      [] f.op \in {"and", "or"} -> UNION {CreatedVars(f.args[p]) : p \in DOMAIN f.args}
      [] OTHER -> {}

RECURSIVE Eval(_, _)
Eval(f, m) ==
    CASE f.op = "var" -> f.name \in m
      [] f.op = "not" -> ~Eval(f.arg, m)
      [] f.op = "and" -> \A p \in DOMAIN f.args : Eval(f.args[p], m)
      [] f.op = "or" -> \E p \in DOMAIN f.args : Eval(f.args[p], m)
      [] OTHER -> FALSE

RECURSIVE Conjuncts(_)
\* The conjuncts of f, nested conjunctions flattened: f is true iff all are.
Conjuncts(f) ==
    IF f.op = "and"
    THEN UNION {Conjuncts(f.args[p]) : p \in DOMAIN f.args}
    ELSE {f}

RECURSIVE SeqOfSet(_)
\* The elements of a finite set, as a sequence without repetition.
SeqOfSet(S) ==
    IF S = {} THEN <<>>
    ELSE LET v == CHOOSE w \in S : TRUE IN <<v>> \o SeqOfSet(S \ {v})

RECURSIVE Extend(_, _, _, _)
\* The assignments that extend m (the true variables among the first p - 1
\* of order) to the other variables of order without making a conjunct
\* false.  test[p] holds the conjuncts whose last variable is order[p].
Extend(order, test, m, p) ==
    IF p > Len(order)
    THEN {m}
    ELSE (IF \A c \in test[p] : Eval(c, m \cup {order[p]})
          THEN Extend(order, test, m \cup {order[p]}, p + 1)
          ELSE {})
         \cup
         (IF \A c \in test[p] : Eval(c, m)
          THEN Extend(order, test, m, p + 1)
          ELSE {})

\* The assignments of the created variables that satisfy f, each given as
\* the set of the variables it makes true: what the solver may return as a
\* model.  It is the set {m \in SUBSET CreatedVars(f) : Eval(f, m)}, found by
\* deciding the Parent variables, then the translator variables, then the
\* Level variables, and testing a conjunct once its variables are decided.
SatModels(f) ==
    LET V == CreatedVars(f)
        cs == {[f |-> c, vars |-> CreatedVars(c)] : c \in Conjuncts(f)}
        order == SeqOfSet({v \in V : v[1] = "p"})
                 \o SeqOfSet({v \in V : v[1] = "x"})
                 \o SeqOfSet({v \in V : v[1] = "l"})
        upTo == [p \in 0..Len(order) |-> {order[q] : q \in 1..p}]
        test == ForEach(Range(1, Len(order) + 1), LAMBDA p :
                    << {c.f : c \in {d \in cs : d.vars \subseteq upTo[p]
                                                 /\ ~(d.vars \subseteq upTo[p - 1])}} >>)
    IN  IF \A c \in cs : c.vars = {} => Eval(c.f, {})
        THEN Extend(order, test, {}, 1)
        ELSE {}

----------------------------------------------------------------------------
\* The decoder.

valueOfVarInModel(m, f) == f.name \in m

is_the_ith_translator(m, u, v, i) ==
    valueOfVarInModel(m, getVariableIsIthTranslator(u, v, i))

\* getTranslatorSetFromModel with the loop over n2 starting at 0.
getTranslatorSetFromModel_all_pairs(m) ==
    ForEach(Range(0, numNodes), LAMBDA u :
        ForEach(Range(0, numNodes), LAMBDA v :
            IF isEdge(u, v)
            THEN ForEach(Range(0, getNumComponents - 1), LAMBDA i :
                    IF is_the_ith_translator(m, u, v, i)
                    THEN << <<"addTranslator", u, v>> >>
                    ELSE <<>>)
            ELSE <<>>))
    \o << <<"computesHomogeneousComponents">> >>

\* The calls getTranslatorSetFromModel makes on the graph, in order: one
\* addTranslator for every (edge, i) the model makes true, in loop order,
\* then computesHomogeneousComponents.
getTranslatorSetFromModel(m) ==
    ForEach(Range(0, numNodes), LAMBDA u :
        ForEach(Range(u + 1, numNodes), LAMBDA v :
            IF isEdge(u, v)
            THEN ForEach(Range(0, getNumComponents - 1), LAMBDA i :
                    IF is_the_ith_translator(m, u, v, i)
                    THEN << <<"addTranslator", u, v>> >>
                    ELSE <<>>)
            ELSE <<>>))
    \o << <<"computesHomogeneousComponents">> >>

----------------------------------------------------------------------------
\* The inputs: a graph of at most MaxNodes nodes with at least one edge, its
\* nodes labelled with the components 0 .. C_H - 1, C_H >= 2, and a depth
\* bound.  Every component has a node and the components are numbered in the
\* order of their smallest nodes.  A graph without edges is left out: with
\* m = 0 the size N * (m * m - 1) of the array phi_2_1 wraps around.

Labelings(n) ==
    {c \in [0..(n - 1) -> 0..(n - 1)] :
        /\ c[0] = 0
        /\ \A v \in 1..(n - 1) :
               \/ \E u \in 0..(v - 1) : c[u] = c[v]
               \/ /\ c[v] > 0
                  /\ \E u \in 0..(v - 1) : c[u] = c[v] - 1
                  /\ \A u \in 0..(v - 1) : c[u] < c[v]
        /\ \E v \in 0..(n - 1) : c[v] = 1}

Init ==
    /\ numNodes \in 2..MaxNodes
    /\ edges \in (SUBSET {e \in (0..(numNodes - 1)) \X (0..(numNodes - 1)) : e[1] < e[2]}) \ {{}}
    /\ component \in Labelings(numNodes)
    /\ cost \in 0..MaxK
    /\ pc = "start"
    /\ formula = Z3_mk_false
    /\ model = {}
    /\ calls = <<>>

\* ast = EdgeConReduction(ctx, graph, cost)
Reduce ==
    /\ pc = "start"
    /\ formula' = EdgeConReduction(cost)
    /\ pc' = "reduced"
    /\ UNCHANGED <<numNodes, edges, component, cost, model, calls>>

\* The solver decides the formula.  Satisfiable: it returns one of the models
\* for the caller to decode.  Unsatisfiable: nothing is decoded.
Solve ==
    /\ pc = "reduced"
    /\ LET S == SatModels(formula)
       IN  IF S = {}
           THEN /\ pc' = "unsat"
                /\ UNCHANGED model
           ELSE /\ \E m \in S : model' = m
                /\ pc' = "sat"
    /\ UNCHANGED <<numNodes, edges, component, cost, formula, calls>>

\* getTranslatorSetFromModel(ctx, model, graph)
Decode ==
    /\ pc = "sat"
    /\ calls' = calls \o getTranslatorSetFromModel(model)
    /\ pc' = "done"
    /\ UNCHANGED <<numNodes, edges, component, cost, formula, model>>

Next == Reduce \/ Solve \/ Decode

Spec == Init /\ [][Next]_vars

\* The same program on graphs of one more node.
InitWide ==
    /\ numNodes \in 2..(MaxNodes + 1)
    /\ edges \in (SUBSET {e \in (0..(numNodes - 1)) \X (0..(numNodes - 1)) : e[1] < e[2]}) \ {{}}
    /\ component \in Labelings(numNodes)
    /\ cost \in 0..MaxK
    /\ pc = "start"
    /\ formula = Z3_mk_false
    /\ model = {}
    /\ calls = <<>>

SpecWide == InitWide /\ [][Next]_vars

----------------------------------------------------------------------------
\* Properties.

C_H == getNumComponents
N == C_H - 1
Components == 0..(C_H - 1)

\* The edges with one endpoint in component j1 and the other in j2.
Crossing(j1, j2) ==
    {e \in edges : \/ component[e[1]] = j1 /\ component[e[2]] = j2
                   \/ component[e[1]] = j2 /\ component[e[2]] = j1}

\* C1: in every satisfying assignment some component c has L(c, h) true for
\* a level h with k <= h < N.
C1_SomeLevelAtLeastK ==
    pc = "sat" =>
        \E c \in Components : \E h \in cost..(N - 1) : <<"l", c, h>> \in model

\* C2: in every satisfying assignment, for distinct j1, j2 with P(j1, j2)
\* true, if h is the level of j1 then the level of j2 is h - 1.
C2_ParentOneLevelShallower ==
    pc = "sat" =>
        \A j1, j2 \in Components :
            (j1 # j2 /\ <<"p", j1, j2>> \in model) =>
                \A h \in 0..(N - 1) :
                    <<"l", j1, h>> \in model => <<"l", j2, h - 1>> \in model

\* C3 as stated: no builder creates a Parent variable P(child, parent) with
\* child = 0.
C3_RootNeverChild ==
    pc = "reduced" =>
        \A v \in CreatedVars(formula) : v[1] = "p" => v[2] # 0

\* C3 as amended: phi_3_1 and phi_3_2 create no P(0, parent); the P(0, .)
\* variables of the formula are the P(0, j2), j2 in [1, C_H), all created by
\* phi_8.
C3_RootChildOnlyInPhi8 ==
    pc = "reduced" =>
        /\ \A v \in CreatedVars(build_phi_3(init_g_context(cost))) : v[2] # 0
        /\ {v \in CreatedVars(formula) : v[1] = "p" /\ v[2] = 0}
             = {<<"p", 0, j2>> : j2 \in 1..(C_H - 1)}
        /\ {v \in CreatedVars(build_phi_8(init_g_context(cost))) : v[1] = "p" /\ v[2] = 0}
             = {<<"p", 0, j2>> : j2 \in 1..(C_H - 1)}

C3_Witness ==
    /\ pc = "reduced"
    /\ C_H >= 3
    /\ <<"p", 0, 2>> \in CreatedVars(formula)
    /\ <<"p", 2, 0>> \in CreatedVars(build_phi_3(init_g_context(cost)))

\* C4: in every satisfying assignment every component has exactly one Level
\* variable true, at a level in [0, N), and no Level variable with a level
\* outside [0, N) is created.
C4_ExactlyOneLevelInRange ==
    pc = "sat" =>
        /\ \A c \in Components :
               /\ Cardinality({v \in model : v[1] = "l" /\ v[2] = c}) = 1
               /\ \A v \in model : (v[1] = "l" /\ v[2] = c) => v[3] \in 0..(N - 1)
        /\ \A v \in CreatedVars(formula) : v[1] = "l" => v[3] \in 0..(N - 1)

\* C5: in every satisfying assignment every non-root component j has exactly
\* one component j1 # j with P(j, j1) true.
C5_ExactlyOneParent ==
    pc = "sat" =>
        \A j \in 1..(C_H - 1) :
            Cardinality({j1 \in Components \ {j} : <<"p", j, j1>> \in model}) = 1

C5_Witness ==
    /\ pc = "sat"
    /\ C_H = 3
    /\ <<"p", 2, 1>> \in model
    /\ <<"p", 1, 0>> \in model

\* C6: in every satisfying assignment no translator identity is true on two
\* different edges and no edge has two different identities true.
C6_PartialInjection ==
    pc = "sat" =>
        /\ \A i \in 0..(N - 1) : \A e, f \in edges :
               (<<"x", e[1], e[2], i>> \in model /\ <<"x", f[1], f[2], i>> \in model)
                   => e = f
        /\ \A e \in edges : \A i, j \in 0..(N - 1) :
               (<<"x", e[1], e[2], i>> \in model /\ <<"x", e[1], e[2], j>> \in model)
                   => i = j

C6_Witness ==
    /\ pc = "sat"
    /\ Cardinality(edges) >= 3
    /\ Cardinality({v \in model : v[1] = "x"}) = 2
    /\ \E v \in model : v[1] = "x" /\ v[4] = 1

\* C7: in every satisfying assignment, P(j1, j2) true for distinct j1, j2
\* implies that some edge joining j1 and j2 has X(edge, i) true for some i
\* in [0, N); so P(j1, j2) is false when no edge joins the two components.
C7_ParentHasTranslatorEdge ==
    pc = "sat" =>
        \A j1, j2 \in Components :
            (j1 # j2 /\ <<"p", j1, j2>> \in model) =>
                \E e \in Crossing(j1, j2) : \E i \in 0..(N - 1) :
                    <<"x", e[1], e[2], i>> \in model

C7_Witness ==
    /\ pc = "sat"
    /\ C_H = 3
    /\ <<"p", 2, 1>> \in model
    /\ Crossing(2, 0) = {}
    /\ Crossing(1, 0) # {}

\* C8: for distinct j1, j2, phi6(j1, j2) contains X(u, v, i) for every edge
\* joining j1 and j2, whichever endpoint is the smaller, and every i in
\* [0, N); it is the constant false only when no edge joins j1 and j2.
C8_Phi6CoversCrossingEdges ==
    \A j1, j2 \in Components :
        j1 # j2 =>
            /\ \A e \in Crossing(j1, j2) : \A i \in 0..(N - 1) :
                   \E p \in DOMAIN phi_6_disjuncts(init_g_context(cost), j1, j2) :
                       phi_6_disjuncts(init_g_context(cost), j1, j2)[p] = X_(e[1], e[2], i)
            /\ build_phi_6(init_g_context(cost), j1, j2) = Z3_mk_false
                   => Crossing(j1, j2) = {}

\* The calls of addTranslator in the log.
Added == SelectSeq(calls, LAMBDA c : c[1] = "addTranslator")

\* C9: getTranslatorSetFromModel calls addTranslator(u, v) for exactly the
\* edges (u, v), u < v, with X(u, v, i) true for some i in [0, N), then
\* computesHomogeneousComponents once, last; on a model of the formula each
\* edge is added at most once and at most N edges are added.
C9_DecodedCalls ==
    pc = "done" =>
        /\ {<<Added[p][2], Added[p][3]>> : p \in DOMAIN Added}
             = {e \in edges : \E i \in 0..(N - 1) : <<"x", e[1], e[2], i>> \in model}
        /\ calls = Added \o << <<"computesHomogeneousComponents">> >>
        /\ \A p, q \in DOMAIN Added : Added[p] = Added[q] => p = q
        /\ Len(Added) <= N

C9_Witness ==
    /\ pc = "done"
    /\ Len(Added) = 2
    /\ Cardinality(edges) = 3
    /\ \E v \in model : v[1] = "x" /\ v[4] = 1

\* The components reached from j by following true Parent variables at most
\* s times.
RECURSIVE Ancestors(_, _)
Ancestors(j, s) ==
    IF s = 0 THEN {j}
    ELSE {j} \cup UNION {Ancestors(j2, s - 1) :
                            j2 \in {c \in Components : <<"p", j, c>> \in model}}

\* C10: in every satisfying assignment the true Parent variables form a
\* tree rooted at component 0: no component is its own ancestor, and from
\* every non-root component the root is reached in fewer than C_H steps.
C10_ParentsFormRootedTree ==
    pc = "sat" =>
        /\ \A j \in 1..(C_H - 1) : 0 \in Ancestors(j, C_H - 1)
        /\ \A j \in Components :
               \A j2 \in {c \in Components : <<"p", j, c>> \in model} :
                   j \notin Ancestors(j2, C_H - 1)

====
